---- MODULE Spec2Model ----
(***************************************************************************)
(* Model of src/Python/tools/actor_tools.py: the six actor tools that      *)
(* register_actor_tools installs.  Each tool looks the connection up,      *)
(* builds a command payload, hands it to send_command, waits for the       *)
(* reply and reshapes it.  One invocation is in flight at a time; the      *)
(* tools keep no state between invocations.                                *)
(*                                                                         *)
(* Python values are tagged records.  A str is a sequence of pieces: the   *)
(* strings that arrive from outside are sequences of one-character pieces  *)
(* (so that upper() and the substring test of `in` are computed), the      *)
(* messages the tools build are the pieces of their f-strings.  A dict is  *)
(* a function from its keys.  Numbers are integers tagged int or float.    *)
(***************************************************************************)
EXTENDS Integers, Sequences, FiniteSets, TLC

VARIABLES pc, op, args, conn, sent, response, outcome

vars == <<pc, op, args, conn, sent, response, outcome>>

\* Longest location / rotation / scale list a caller passes.
MaxLen == 4

\* The length the validation of create_actor asks for.
TripleLen == 3

----------------------------------------------------------------------------
\* Python values

PyNone == [t |-> "none"]
PyInt(n) == [t |-> "int", n |-> n]
PyFloat(n) == [t |-> "float", n |-> n]
PyBool(b) == [t |-> "bool", b |-> b]
PyStr(s) == [t |-> "str", s |-> s]
PyList(items) == [t |-> "list", items |-> items]
PyTuple(items) == [t |-> "tuple", items |-> items]
PyDict(m) == [t |-> "dict", m |-> m]

EmptyDict == PyDict([k \in {} |-> PyNone])
EmptyList == PyList(<<>>)

\* Results of evaluating an expression or a block.
Ok(v) == [k |-> "ok", v |-> v]
OkB(b) == [k |-> "ok", b |-> b]
Raise(e) == [k |-> "raise", e |-> e]
Return(v) == [k |-> "return", v |-> v]
Send(cmd, params) == [k |-> "send", cmd |-> cmd, params |-> params]
Nothing == [k |-> "none"]

\* bool(v): what `if not v` and `v or d` test.
Truthy(v) ==
    CASE v.t = "none" -> FALSE
      [] v.t = "bool" -> v.b
      [] v.t \in {"int", "float"} -> v.n # 0
      [] v.t = "str" -> Len(v.s) > 0
      [] v.t \in {"list", "tuple"} -> Len(v.items) > 0
      [] v.t = "dict" -> DOMAIN v.m # {}
      [] OTHER -> TRUE

\* a or b
PyOr(a, b) == IF Truthy(a) THEN a ELSE b

\* The characters of the two keys the tools look for with `in`.
KeyChars(key) ==
    CASE key = "result" -> <<"r", "e", "s", "u", "l", "t">>
      [] key = "content" -> <<"c", "o", "n", "t", "e", "n", "t">>
      [] OTHER -> <<key>>

IsSubstring(a, b) ==
    \E i \in 0..(Len(b) - Len(a)) : \A j \in 1..Len(a) : b[i + j] = a[j]

\* key in c, for a str key
PyIn(key, c) ==
    CASE c.t = "dict" -> OkB(key \in DOMAIN c.m)
      [] c.t \in {"list", "tuple"} ->
            OkB(\E i \in 1..Len(c.items) : c.items[i] = PyStr(KeyChars(key)))
      [] c.t = "str" -> OkB(IsSubstring(KeyChars(key), c.s))
      [] OTHER -> Raise("TypeError")

\* c[key], for a str key
PyGetItem(c, key) ==
    CASE c.t = "dict" -> IF key \in DOMAIN c.m THEN Ok(c.m[key]) ELSE Raise("KeyError")
      [] OTHER -> Raise("TypeError")

\* c.get(key, default)
PyGet(c, key, default) ==
    CASE c.t = "dict" -> IF key \in DOMAIN c.m THEN Ok(c.m[key]) ELSE Ok(default)
      [] OTHER -> Raise("AttributeError")

\* len(v)
PyLen(v) ==
    CASE v.t \in {"list", "tuple"} -> Ok(PyInt(Len(v.items)))
      [] v.t = "str" -> Ok(PyInt(Len(v.s)))
      [] v.t = "dict" -> Ok(PyInt(Cardinality(DOMAIN v.m)))
      [] OTHER -> Raise("TypeError")

LowerCase == <<"a", "b", "c", "d", "e", "f", "g", "h", "i", "j", "k", "l", "m",
               "n", "o", "p", "q", "r", "s", "t", "u", "v", "w", "x", "y", "z">>
UpperCase == <<"A", "B", "C", "D", "E", "F", "G", "H", "I", "J", "K", "L", "M",
               "N", "O", "P", "Q", "R", "S", "T", "U", "V", "W", "X", "Y", "Z">>

UpperChar(c) ==
    IF \E i \in 1..Len(LowerCase) : LowerCase[i] = c
    THEN UpperCase[CHOOSE i \in 1..Len(LowerCase) : LowerCase[i] = c]
    ELSE c

\* v.upper()
PyUpper(v) ==
    IF v.t = "str"
    THEN Ok(PyStr([i \in 1..Len(v.s) |-> UpperChar(v.s[i])]))
    ELSE Raise("AttributeError")

Digits == <<"0", "1", "2", "3", "4", "5", "6", "7", "8", "9">>
IsDigit(c) == \E i \in 1..Len(Digits) : Digits[i] = c
DigitValue(c) == (CHOOSE i \in 1..Len(Digits) : Digits[i] = c) - 1

RECURSIVE ParseDigits(_, _)
ParseDigits(s, acc) ==
    IF s = <<>> THEN acc ELSE ParseDigits(Tail(s), 10 * acc + DigitValue(Head(s)))

\* float(v)
PyToFloat(v) ==
    CASE v.t \in {"int", "float"} -> Ok(PyFloat(v.n))
      [] v.t = "bool" -> Ok(PyFloat(IF v.b THEN 1 ELSE 0))
      [] v.t = "str" ->
            IF Len(v.s) > 0 /\ \A i \in 1..Len(v.s) : IsDigit(v.s[i])
            THEN Ok(PyFloat(ParseDigits(v.s, 0)))
            ELSE Raise("ValueError")
      [] OTHER -> Raise("TypeError")

\* [float(val) for val in items]
RECURSIVE FloatAll(_, _)
FloatAll(items, done) ==
    IF items = <<>> THEN Ok(PyList(done))
    ELSE LET f == PyToFloat(Head(items))
         IN  IF f.k = "raise" THEN f ELSE FloatAll(Tail(items), Append(done, f.v))

----------------------------------------------------------------------------
\* The collaborators

\* What get_unreal_connection() does: hands out a connection, hands out None,
\* or raises.
ConnOutcomes == {"ok", "none", "raise"}

\* The classes `except Exception` catches, among those raised here.  The
\* collaborators and the operations on values raise subclasses of Exception;
\* an exception is named by its class, which stands for its text in messages.
IsException(e) ==
    e \in {"Exception", "ConnectionError", "AttributeError", "TypeError",
           "ValueError", "KeyError"}

\* unity = get_unreal_connection()
get_unreal_connection(c) == IF c = "raise" THEN Raise("ConnectionError") ELSE OkB(c = "ok")

\* unity.send_command(cmd, params): the attribute lookup fails on None.
send_command(c, cmd, params) ==
    IF c = "none" THEN Raise("AttributeError") ELSE Send(cmd, PyDict(params))

----------------------------------------------------------------------------
\* get_actors_in_level

get_actors_in_level_request(c) ==
    LET u == get_unreal_connection(c)
    IN  IF u.k = "raise" THEN u
        ELSE send_command(c, "get_actors_in_level", [k \in {} |-> PyNone])

\* return actors, after the log line that takes len(actors)
ReturnActors(actors) ==
    LET n == PyLen(actors) IN IF n.k = "raise" THEN n ELSE Return(actors)

\* "result" in response and "content" in response["result"]
HasNestedContent(resp) ==
    LET a == PyIn("result", resp)
    IN  IF a.k = "raise" \/ ~a.b THEN a
        ELSE LET r == PyGetItem(resp, "result")
             IN  IF r.k = "raise" THEN r ELSE PyIn("content", r.v)

\* The try block from the reply on; r is what send_command did.
get_actors_in_level_reply(r) ==
    IF r.k = "raise" THEN r
    ELSE IF ~Truthy(r.v) THEN Return(EmptyList)
    ELSE LET nested == HasNestedContent(r.v)
         IN  IF nested.k = "raise" THEN nested
             ELSE IF nested.b
             THEN LET inner == PyGetItem(PyGetItem(r.v, "result").v, "content")
                  IN  IF inner.k = "raise" THEN inner ELSE ReturnActors(inner.v)
             ELSE LET top == PyIn("content", r.v)
                  IN  IF top.k = "raise" THEN top
                      ELSE IF top.b
                      THEN LET outer == PyGetItem(r.v, "content")
                           IN  IF outer.k = "raise" THEN outer ELSE ReturnActors(outer.v)
                      ELSE Return(EmptyList)

\* Variant: the except clause catches a lost connection only.
get_actors_in_level_except_narrow(o) ==
    IF o.k = "raise" /\ o.e = "ConnectionError" THEN Return(EmptyList) ELSE o

get_actors_in_level_except(o) ==
    IF o.k = "raise" /\ IsException(o.e) THEN Return(EmptyList) ELSE o

----------------------------------------------------------------------------
\* find_actors_by_name

find_actors_by_name_request(c, pattern) ==
    LET u == get_unreal_connection(c)
    IN  IF u.k = "raise" THEN u
        ELSE send_command(c, "find_actors_by_name", [k \in {"pattern"} |-> pattern])

\* Variant: the reply is read at "content", the key of the listing tool.
find_actors_by_name_reply_content(r) ==
    IF r.k = "raise" THEN r
    ELSE IF ~Truthy(r.v) THEN Return(EmptyList)
    ELSE LET g == PyGet(r.v, "content", EmptyList)
         IN  IF g.k = "raise" THEN g ELSE Return(g.v)

find_actors_by_name_reply(r) ==
    IF r.k = "raise" THEN r
    ELSE IF ~Truthy(r.v) THEN Return(EmptyList)
    ELSE LET g == PyGet(r.v, "actors", EmptyList)
         IN  IF g.k = "raise" THEN g ELSE Return(g.v)

find_actors_by_name_except(o) ==
    IF o.k = "raise" /\ IsException(o.e) THEN Return(EmptyList) ELSE o

----------------------------------------------------------------------------
\* create_actor

GeoFields == <<"location", "rotation", "scale">>

DefaultLocation == PyList(<<PyFloat(0), PyFloat(0), PyFloat(0)>>)
DefaultRotation == PyList(<<PyFloat(0), PyFloat(0), PyFloat(0)>>)
\* Variant: scale defaults to the triple of location and rotation.
DefaultScale_zeros == PyList(<<PyFloat(0), PyFloat(0), PyFloat(0)>>)
DefaultScale == PyList(<<PyFloat(1), PyFloat(1), PyFloat(1)>>)

\* {"success": False, "message": f"Invalid {param_name} format. Must be ..."}
InvalidFormat(param_name) ==
    PyDict([k \in {"success", "message"} |->
        IF k = "success" THEN PyBool(FALSE)
        ELSE PyStr(<<"Invalid ", param_name,
                     " format. Must be a list of 3 float values.">>)])

NoResponse ==
    PyDict([k \in {"success", "message"} |->
        IF k = "success" THEN PyBool(FALSE)
        ELSE PyStr(<<"No response from Unreal Engine">>)])

\* {"success": False, "message": f"Error creating actor: {e}"}
ErrorCreating(e) ==
    PyDict([k \in {"success", "message"} |->
        IF k = "success" THEN PyBool(FALSE)
        ELSE PyStr(<<"Error creating actor: ", e>>)])

\* The params literal; a is the caller's arguments.
CreateParams(a, upper) ==
    [k \in {"name", "type", "location", "rotation", "scale"} |->
        CASE k = "name" -> a.name
          [] k = "type" -> upper
          [] k = "location" -> PyOr(a.location, DefaultLocation)
          [] k = "rotation" -> PyOr(a.rotation, DefaultRotation)
          [] k = "scale" -> PyOr(a.scale, DefaultScale)]

\* not isinstance(param_value, list) or len(param_value) != 3
BadFormat(param_value) ==
    param_value.t # "list" \/ Len(param_value.items) # TripleLen

\* The validation loop from field i on: Ok(params), or the early return,
\* or what float() raised.
RECURSIVE Validate(_, _)
Validate(params, i) ==
    IF i > Len(GeoFields) THEN [k |-> "ok", params |-> params]
    ELSE LET param_name == GeoFields[i]
             param_value == params[param_name]
         IN  IF BadFormat(param_value) THEN Return(InvalidFormat(param_name))
             ELSE LET f == FloatAll(param_value.items, <<>>)
                  IN  IF f.k = "raise" THEN f
                      ELSE Validate([params EXCEPT ![param_name] = f.v], i + 1)

create_actor_request(c, a) ==
    LET u == get_unreal_connection(c)
        up == PyUpper(a.type)
    IN  IF u.k = "raise" THEN u
        ELSE IF up.k = "raise" THEN up
        ELSE LET v == Validate(CreateParams(a, up.v), 1)
             IN  IF v.k # "ok" THEN v
                 ELSE send_command(c, "create_actor", v.params)

create_actor_reply(r) ==
    IF r.k = "raise" THEN r
    ELSE IF ~Truthy(r.v) THEN Return(NoResponse)
    ELSE Return(r.v)

\* Variant: the except clause returns {} as the other tools do.
create_actor_except_empty(o) ==
    IF o.k = "raise" /\ IsException(o.e) THEN Return(EmptyDict) ELSE o

create_actor_except(o) ==
    IF o.k = "raise" /\ IsException(o.e) THEN Return(ErrorCreating(o.e)) ELSE o

----------------------------------------------------------------------------
\* delete_actor

delete_actor_request(c, name) ==
    LET u == get_unreal_connection(c)
    IN  IF u.k = "raise" THEN u
        ELSE send_command(c, "delete_actor", [k \in {"name"} |-> name])

\* Variant: a reply with success = False is replaced by the default.
delete_actor_reply_hides_failure(r) ==
    IF r.k = "raise" THEN r
    ELSE IF r.v.t = "dict" /\ "success" \in DOMAIN r.v.m /\ ~Truthy(r.v.m["success"])
    THEN Return(EmptyDict)
    ELSE Return(PyOr(r.v, EmptyDict))

delete_actor_reply(r) ==
    IF r.k = "raise" THEN r ELSE Return(PyOr(r.v, EmptyDict))

delete_actor_except(o) ==
    IF o.k = "raise" /\ IsException(o.e) THEN Return(EmptyDict) ELSE o

----------------------------------------------------------------------------
\* set_actor_transform

\* Variant: `if x:` in place of `if x is not None:`.
IsNotNone_truthy(x) == Truthy(x)

\* if x is not None
IsNotNone(x) == x.t # "none"

\* params = {"name": name} plus the fields that are not None
TransformParams(a) ==
    [k \in {"name"} \cup {GeoFields[i] : i \in {j \in 1..Len(GeoFields) :
                                                 IsNotNone(a[GeoFields[j]])}} |->
        IF k = "name" THEN a.name ELSE a[k]]

set_actor_transform_request(c, a) ==
    LET u == get_unreal_connection(c)
    IN  IF u.k = "raise" THEN u
        ELSE send_command(c, "set_actor_transform", TransformParams(a))

set_actor_transform_reply(r) ==
    IF r.k = "raise" THEN r ELSE Return(PyOr(r.v, EmptyDict))

set_actor_transform_except(o) ==
    IF o.k = "raise" /\ IsException(o.e) THEN Return(EmptyDict) ELSE o

----------------------------------------------------------------------------
\* get_actor_properties

get_actor_properties_request(c, name) ==
    LET u == get_unreal_connection(c)
    IN  IF u.k = "raise" THEN u
        ELSE send_command(c, "get_actor_properties", [k \in {"name"} |-> name])

\* Variant: an absent or empty reply makes the tool ask once more.
get_actor_properties_reply_retry(r) ==
    IF r.k = "raise" THEN r
    ELSE IF ~Truthy(r.v) THEN Send("get_actor_properties", EmptyDict)
    ELSE Return(r.v)

get_actor_properties_reply(r) ==
    IF r.k = "raise" THEN r ELSE Return(PyOr(r.v, EmptyDict))

get_actor_properties_except(o) ==
    IF o.k = "raise" /\ IsException(o.e) THEN Return(EmptyDict) ELSE o

----------------------------------------------------------------------------
\* What the callers pass and what the engine answers

Chars_content == <<"c", "o", "n", "t", "e", "n", "t">>

Unused == [t |-> "unused"]
NoArgs == [name |-> Unused, type |-> Unused, pattern |-> Unused,
           location |-> Unused, rotation |-> Unused, scale |-> Unused]

Names == {PyStr(<<"B", "o", "x", "1">>)}
Types == {PyStr(<<"c", "u", "b", "e">>), PyStr(<<"S", "p", "h", "e", "r", "e", "2">>), PyNone}
Patterns == {PyStr(<<"B", "o", "x", "*">>), PyStr(<<>>)}

Ramp(n) == [i \in 1..n |-> PyInt(i)]

\* location / rotation / scale as passed: omitted, lists of 0..MaxLen ints,
\* and 3-element sequences of floats, of numeric strings, with a
\* non-numeric element, and a tuple.
GeoArgs ==
    {PyNone}
    \cup {PyList(Ramp(n)) : n \in 0..MaxLen}
    \cup {PyList(<<PyFloat(4), PyFloat(5), PyFloat(6)>>),
          PyList(<<PyStr(<<"7">>), PyStr(<<"8">>), PyStr(<<"9">>)>>),
          PyList(<<PyInt(1), PyStr(<<"x">>), PyInt(3)>>),
          PyTuple(Ramp(TripleLen))}

Absent == [t |-> "absent"]
TopItems == PyList(<<PyStr(<<"A">>), PyStr(<<"B">>)>>)
NestedItems == PyList(<<PyStr(<<"C">>)>>)
ActorNames == PyList(<<PyStr(<<"X">>), PyStr(<<"Y">>)>>)

ResultEntries ==
    {Absent, PyNone, PyInt(5), PyStr(Chars_content), PyStr(<<"o", "k">>),
     PyList(<<PyStr(Chars_content)>>), EmptyDict,
     PyDict([k \in {"content"} |-> NestedItems])}
ContentEntries == {Absent, TopItems, PyNone}
ActorsEntries == {Absent, ActorNames}
FailureEntries == {Absent, PyBool(FALSE)}

\* The mapping with the entries that are not Absent; a failure indicator is
\* success = False with a message.
MkReply(res, con, act, fail) ==
    LET e == [k \in {"result", "content", "actors", "success", "message"} |->
                 CASE k = "result" -> res
                   [] k = "content" -> con
                   [] k = "actors" -> act
                   [] k = "success" -> fail
                   [] k = "message" ->
                        IF fail = Absent THEN Absent ELSE PyStr(<<"Actor not found">>)]
    IN  PyDict([k \in {x \in DOMAIN e : e[x] # Absent} |-> e[k]])

Replies ==
    {MkReply(res, con, act, fail) :
        res \in ResultEntries, con \in ContentEntries,
        act \in ActorsEntries, fail \in FailureEntries}
    \cup {PyNone, EmptyList, PyList(<<PyStr(Chars_content)>>),
          PyStr(Chars_content), PyInt(7)}

\* What send_command does once called: it returns a reply or raises.
Responses ==
    {[k |-> "reply", v |-> x] : x \in Replies}
    \cup {Raise("ConnectionError"), Raise("Exception")}

----------------------------------------------------------------------------
\* The state machine

Init ==
    /\ pc = "idle"
    /\ op = ""
    /\ args = NoArgs
    /\ conn = ""
    /\ sent = <<>>
    /\ response = Nothing
    /\ outcome = Nothing

\* A block ended with o: the command goes out and the tool waits, or the
\* tool returns (or raises) o.
Proceed(o) ==
    IF o.k = "send"
    THEN /\ sent' = Append(sent, [cmd |-> o.cmd, params |-> o.params])
         /\ pc' = "awaiting"
         /\ outcome' = Nothing
    ELSE /\ sent' = sent
         /\ pc' = "returned"
         /\ outcome' = o

\* The tool is called with arguments a when the connection lookup does c.
Begin(name, a, c, o) ==
    /\ op' = name
    /\ args' = a
    /\ conn' = c
    /\ response' = Nothing
    /\ Proceed(o)

\* send_command did r.
Resume(name, r, o) ==
    /\ response' = r
    /\ Proceed(o)
    /\ UNCHANGED <<op, args, conn>>

get_actors_in_level ==
    /\ pc = "idle"
    /\ \E c \in ConnOutcomes :
           Begin("get_actors_in_level", NoArgs, c,
                 get_actors_in_level_except(get_actors_in_level_request(c)))

get_actors_in_level_resume ==
    /\ pc = "awaiting"
    /\ op = "get_actors_in_level"
    /\ \E r \in Responses :
           Resume("get_actors_in_level", r,
                  get_actors_in_level_except(get_actors_in_level_reply(r)))

find_actors_by_name ==
    /\ pc = "idle"
    /\ \E c \in ConnOutcomes, pattern \in Patterns :
           Begin("find_actors_by_name", [NoArgs EXCEPT !.pattern = pattern], c,
                 find_actors_by_name_except(find_actors_by_name_request(c, pattern)))

find_actors_by_name_resume ==
    /\ pc = "awaiting"
    /\ op = "find_actors_by_name"
    /\ \E r \in Responses :
           Resume("find_actors_by_name", r,
                  find_actors_by_name_except(find_actors_by_name_reply(r)))

create_actor ==
    /\ pc = "idle"
    /\ \E c \in ConnOutcomes, name \in Names, type \in Types,
          location \in GeoArgs, rotation \in GeoArgs, scale \in GeoArgs :
           LET a == [NoArgs EXCEPT !.name = name, !.type = type,
                         !.location = location, !.rotation = rotation, !.scale = scale]
           IN  Begin("create_actor", a, c, create_actor_except(create_actor_request(c, a)))

create_actor_resume ==
    /\ pc = "awaiting"
    /\ op = "create_actor"
    /\ \E r \in Responses :
           Resume("create_actor", r, create_actor_except(create_actor_reply(r)))

delete_actor ==
    /\ pc = "idle"
    /\ \E c \in ConnOutcomes, name \in Names :
           Begin("delete_actor", [NoArgs EXCEPT !.name = name], c,
                 delete_actor_except(delete_actor_request(c, name)))

delete_actor_resume ==
    /\ pc = "awaiting"
    /\ op = "delete_actor"
    /\ \E r \in Responses :
           Resume("delete_actor", r, delete_actor_except(delete_actor_reply(r)))

set_actor_transform ==
    /\ pc = "idle"
    /\ \E c \in ConnOutcomes, name \in Names,
          location \in GeoArgs, rotation \in GeoArgs, scale \in GeoArgs :
           LET a == [NoArgs EXCEPT !.name = name,
                         !.location = location, !.rotation = rotation, !.scale = scale]
           IN  Begin("set_actor_transform", a, c,
                     set_actor_transform_except(set_actor_transform_request(c, a)))

set_actor_transform_resume ==
    /\ pc = "awaiting"
    /\ op = "set_actor_transform"
    /\ \E r \in Responses :
           Resume("set_actor_transform", r,
                  set_actor_transform_except(set_actor_transform_reply(r)))

get_actor_properties ==
    /\ pc = "idle"
    /\ \E c \in ConnOutcomes, name \in Names :
           Begin("get_actor_properties", [NoArgs EXCEPT !.name = name], c,
                 get_actor_properties_except(get_actor_properties_request(c, name)))

get_actor_properties_resume ==
    /\ pc = "awaiting"
    /\ op = "get_actor_properties"
    /\ \E r \in Responses :
           Resume("get_actor_properties", r,
                  get_actor_properties_except(get_actor_properties_reply(r)))

\* The caller has the value; the next invocation starts from nothing.
Finished ==
    /\ pc = "returned"
    /\ outcome.k = "return"
    /\ pc' = "idle"
    /\ op' = ""
    /\ args' = NoArgs
    /\ conn' = ""
    /\ sent' = <<>>
    /\ response' = Nothing
    /\ outcome' = Nothing

Next ==
    \/ get_actors_in_level
    \/ get_actors_in_level_resume
    \/ find_actors_by_name
    \/ find_actors_by_name_resume
    \/ create_actor
    \/ create_actor_resume
    \/ delete_actor
    \/ delete_actor_resume
    \/ set_actor_transform
    \/ set_actor_transform_resume
    \/ get_actor_properties
    \/ get_actor_properties_resume
    \/ Finished

Spec == Init /\ [][Next]_vars

----------------------------------------------------------------------------
\* Properties

GeoSet == {"location", "rotation", "scale"}
ToolNames == {"get_actors_in_level", "find_actors_by_name", "create_actor",
              "delete_actor", "set_actor_transform", "get_actor_properties"}

Replied == pc = "returned" /\ response.k = "reply"

\* a list of ints or floats
IsNumberList(v) ==
    v.t = "list" /\ \A i \in 1..Len(v.items) : v.items[i].t \in {"int", "float"}

\* C1: every invocation of each of the six tools, whatever the arguments, the
\* connection lookup and send_command do, ends by returning a value; no
\* exception reaches the caller, and a tool that waits for send_command can
\* always go on.
C1_NeverRaises ==
    /\ outcome.k # "raise"
    /\ (pc = "returned" => outcome.k = "return")
    /\ (pc = "awaiting" => ENABLED Next)

\* send_command raised, or the reply broke the reshaping, and the tool
\* returned a value all the same.
C1_Witness ==
    /\ pc = "returned"
    /\ outcome.k = "return"
    /\ \/ response.k = "raise"
       \/ /\ response.k = "reply"
          /\ op = "get_actors_in_level"
          /\ get_actors_in_level_reply(response).k = "raise"

\* C2: create_actor with a supplied location, rotation or scale whose length
\* is not 3 returns {success: False, message naming such a field} and never
\* calls send_command.  Stated for the invocations where the connection is
\* there, type is a str and every supplied field is a list of numbers.
C2_RejectsBadLength ==
    (/\ op = "create_actor"
     /\ pc # "idle"
     /\ conn = "ok"
     /\ args.type.t = "str"
     /\ \A f \in GeoSet : args[f] = PyNone \/ IsNumberList(args[f])
     /\ \E f \in GeoSet : args[f] # PyNone /\ Len(args[f].items) # 3)
    => /\ sent = <<>>
       /\ pc = "returned"
       /\ \E f \in GeoSet :
            /\ args[f] # PyNone
            /\ Len(args[f].items) # 3
            /\ outcome = Return(InvalidFormat(f))

\* list_content as the claim C3 states it.
ListContentClaim(reply) ==
    IF reply = PyNone \/ reply = EmptyDict \/ reply.t # "dict" THEN EmptyList
    ELSE IF /\ "result" \in DOMAIN reply.m
            /\ reply.m["result"].t = "dict"
            /\ "content" \in DOMAIN reply.m["result"].m
         THEN reply.m["result"].m["content"]
    ELSE IF "content" \in DOMAIN reply.m THEN reply.m["content"]
    ELSE EmptyList

\* C3: get_actors_in_level returns list_content of the reply: the nested
\* result.content when the reply has a result mapping with content, else the
\* top-level content when the reply has one (whatever its result entry is),
\* else the empty list.  Stated for the replies whose content entries are
\* lists.
C3_ListContent ==
    (/\ op = "get_actors_in_level"
     /\ Replied
     /\ (response.v.t = "dict" /\ "content" \in DOMAIN response.v.m
            => response.v.m["content"].t = "list"))
    => outcome = Return(ListContentClaim(response.v))

\* a reply that carries a failure indicator
IsFailureReply(v) ==
    /\ v.t = "dict"
    /\ "success" \in DOMAIN v.m
    /\ v.m["success"] = PyBool(FALSE)

\* C4 as claimed: every tool returns a reply that carries a failure
\* indicator unchanged, after the one call.
C4_EveryToolRelays ==
    (Replied /\ IsFailureReply(response.v))
    => (outcome = Return(response.v) /\ Len(sent) = 1)

\* C4 as amended: the four tools that return a mapping relay a reply that
\* carries a failure indicator unchanged; the two listing tools never return
\* the reply itself, and return the empty list when it holds nothing but
\* success and message; no tool calls send_command again.
C4_MappingToolsRelay ==
    (Replied /\ IsFailureReply(response.v))
    => /\ Len(sent) = 1
       /\ outcome.k = "return"
       /\ op \in {"create_actor", "delete_actor", "set_actor_transform",
                  "get_actor_properties"} => outcome.v = response.v
       /\ op \in {"get_actors_in_level", "find_actors_by_name"} =>
            /\ outcome.v # response.v
            /\ DOMAIN response.v.m = {"success", "message"} => outcome.v = EmptyList

C4_Witness ==
    /\ Replied
    /\ op = "delete_actor"
    /\ IsFailureReply(response.v)
    /\ outcome = Return(response.v)

\* The tool made the result itself: nothing was sent (no connection, bad
\* input), send_command raised, or the reply was absent or empty.
SelfProduced ==
    /\ pc = "returned"
    /\ \/ sent = <<>>
       \/ response.k = "raise"
       \/ response.k = "reply" /\ response.v \in {PyNone, EmptyDict}

IsFailureMapping(v) ==
    /\ v.t = "dict"
    /\ {"success", "message"} \subseteq DOMAIN v.m
    /\ v.m["success"] = PyBool(FALSE)
    /\ v.m["message"].t = "str"

\* C5 as claimed: every result create_actor, delete_actor and
\* set_actor_transform make themselves is a mapping with success = False and
\* a message.
C5_FailuresCarrySuccess ==
    (op \in {"create_actor", "delete_actor", "set_actor_transform"} /\ SelfProduced)
    => (outcome.k = "return" /\ IsFailureMapping(outcome.v))

\* C5 as amended: every result create_actor makes itself is a mapping with
\* success = False and a message; every result delete_actor and
\* set_actor_transform make themselves is the empty mapping.
C5_CreateFailsLoudOthersEmpty ==
    SelfProduced
    => /\ op = "create_actor" => (outcome.k = "return" /\ IsFailureMapping(outcome.v))
       /\ op \in {"delete_actor", "set_actor_transform"} => outcome = Return(EmptyDict)

C5_Witness ==
    /\ SelfProduced
    /\ op = "create_actor"
    /\ response.k = "raise"
    /\ IsFailureMapping(outcome.v)

\* C6: in every payload handed to send_command, each of location, rotation
\* and scale that is present is a sequence of exactly 3 elements.
C6_GeometryIsTriple ==
    \A i \in 1..Len(sent) :
        \A f \in GeoSet \cap DOMAIN sent[i].params.m :
            /\ sent[i].params.m[f].t \in {"list", "tuple"}
            /\ Len(sent[i].params.m[f].items) = 3

\* a list of 3 ints or floats
WellFormed(v) == IsNumberList(v) /\ Len(v.items) = 3

\* the float values of the numbers of a well-formed field
SameNumbers(sentField, given) ==
    /\ sentField.t = "list"
    /\ Len(sentField.items) = Len(given.items)
    /\ \A i \in 1..Len(given.items) : sentField.items[i] = PyFloat(given.items[i].n)

Zeros == PyList(<<PyFloat(0), PyFloat(0), PyFloat(0)>>)
Ones == PyList(<<PyFloat(1), PyFloat(1), PyFloat(1)>>)

ExpectedType(type) ==
    CASE type = PyStr(<<"c", "u", "b", "e">>) -> PyStr(<<"C", "U", "B", "E">>)
      [] type = PyStr(<<"S", "p", "h", "e", "r", "e", "2">>) ->
            PyStr(<<"S", "P", "H", "E", "R", "E", "2">>)

\* C7: create_actor with a name and a type, the connection there, and each of
\* location, rotation, scale omitted or a list of 3 numbers sends exactly one
\* create_actor command with the payload {name, type upper-cased, location,
\* rotation, scale}: [0,0,0], [0,0,0], [1,1,1] for the omitted fields, the
\* caller's numbers as floats for the supplied ones.
C7_CreatePayload ==
    (/\ op = "create_actor"
     /\ pc # "idle"
     /\ conn = "ok"
     /\ args.type.t = "str"
     /\ \A f \in GeoSet : args[f] = PyNone \/ WellFormed(args[f]))
    => /\ Len(sent) = 1
       /\ sent[1].cmd = "create_actor"
       /\ sent[1].params.t = "dict"
       /\ LET p == sent[1].params.m
          IN  /\ DOMAIN p = {"name", "type", "location", "rotation", "scale"}
              /\ p["name"] = args.name
              /\ p["type"] = ExpectedType(args.type)
              /\ \A f \in GeoSet :
                    IF args[f] = PyNone
                    THEN p[f] = (IF f = "scale" THEN Ones ELSE Zeros)
                    ELSE SameNumbers(p[f], args[f])

C7_Witness ==
    /\ op = "create_actor"
    /\ pc = "awaiting"
    /\ args.type = PyStr(<<"c", "u", "b", "e">>)
    /\ \A f \in GeoSet : args[f] = PyNone
    /\ Len(sent) = 1
    /\ sent[1].params.m["scale"] = Ones

\* C8: the payload set_actor_transform sends has exactly the keys name plus
\* those of location, rotation, scale the caller supplied, each with the
\* caller's value; an omitted field is not in it; with the connection there
\* the payload is sent, for each of the 8 combinations.
C8_TransformPayload ==
    (op = "set_actor_transform" /\ pc # "idle")
    => /\ conn = "ok" => Len(sent) = 1
       /\ \A i \in 1..Len(sent) :
            /\ sent[i].cmd = "set_actor_transform"
            /\ sent[i].params.t = "dict"
            /\ DOMAIN sent[i].params.m =
                  {"name"} \cup {f \in GeoSet : args[f] # PyNone}
            /\ sent[i].params.m["name"] = args.name
            /\ \A f \in GeoSet : args[f] # PyNone => sent[i].params.m[f] = args[f]

C8_Witness ==
    /\ op = "set_actor_transform"
    /\ pc = "awaiting"
    /\ args.location = PyList(Ramp(3))
    /\ args.rotation = PyNone
    /\ args.scale = PyNone
    /\ DOMAIN sent[1].params.m = {"name", "location"}

\* list_field("actors") as the claim C9 states it.
ListFieldClaim(reply) ==
    IF reply = PyNone \/ reply = EmptyDict THEN EmptyList
    ELSE IF reply.t = "dict" /\ "actors" \in DOMAIN reply.m THEN reply.m["actors"]
    ELSE EmptyList

\* C9: find_actors_by_name sends find_actors_by_name with {pattern: the given
\* pattern}; it returns the empty list for an absent or empty reply, else the
\* reply's value at actors when the key is there and the empty list when not.
C9_FindActors ==
    (op = "find_actors_by_name" /\ pc # "idle")
    => /\ conn = "ok" => Len(sent) = 1
       /\ \A i \in 1..Len(sent) :
            sent[i] = [cmd |-> "find_actors_by_name",
                       params |-> PyDict([k \in {"pattern"} |-> args.pattern])]
       /\ Replied => outcome = Return(ListFieldClaim(response.v))

C9_Witness ==
    /\ op = "find_actors_by_name"
    /\ Replied
    /\ response.v.t = "dict"
    /\ "actors" \in DOMAIN response.v.m
    /\ outcome = Return(ActorNames)

\* C10: an invocation calls send_command at most once, under the name of the
\* tool; it returns only after that call replied or raised, and once the
\* call has replied or raised the tool has returned: nothing is sent again.
C10_OneCallPerInvocation ==
    /\ Len(sent) <= 1
    /\ \A i \in 1..Len(sent) : sent[i].cmd = op /\ op \in ToolNames
    /\ pc = "awaiting" => (Len(sent) = 1 /\ response = Nothing /\ outcome = Nothing)
    /\ (pc = "returned" /\ sent # <<>>) => response.k \in {"reply", "raise"}
    /\ response.k # "none" => pc = "returned"

C10_Witness ==
    /\ pc = "returned"
    /\ Len(sent) = 1
    /\ \/ response.k = "raise"
       \/ response.k = "reply" /\ response.v \in {PyNone, EmptyDict}

====
